---- MODULE Spec2Model ----
(***************************************************************************)
(* Multimodal Parkinson's screening: the drawing adapter, the voice        *)
(* feature extractor, the score combiner, the age caution rule, and the    *)
(* two delivery shells (multimodal_predict on the command line, predict    *)
(* behind POST /predict).                                                  *)
(*                                                                         *)
(* Numbers.  Probabilities and weights are hundredths (0.55 is 55), so a   *)
(* combined score and a confidence are ten-thousandths (0.5 is 5000).      *)
(* Ages are tenths of a year (18 is 180).  Text is a sequence of           *)
(* one-character strings.                                                  *)
(***************************************************************************)
EXTENDS Integers, Sequences, FiniteSets, TLC

\* ------------------------------------------------------------- bounds
\* Largest trained width of the voice scaler that is explored.
MaxWidth == 4
\* Largest explicit expected_n_features passed to the extractor directly.
MaxExpected == 4

\* ------------------------------------------------------------- values
\* Python's None in a numeric position (a shape entry, expected_n_features).
None == -1
\* A non-finite float (numpy inf) in a feature row.
Inf == 99999

\* ------------------------------------------------------------- text
Str_webm == <<".", "w", "e", "b", "m">>
Str_voice_input == <<"v", "o", "i", "c", "e", "_", "i", "n", "p", "u", "t">>

\* str.lower() on one character of the alphabet the file names use.
LowerChar(c) ==
    CASE c = "W" -> "w"
      [] c = "E" -> "e"
      [] c = "B" -> "b"
      [] c = "M" -> "m"
      [] c = "A" -> "a"
      [] c = "V" -> "v"
      [] OTHER -> c

Lower(s) == [i \in 1..Len(s) |-> LowerChar(s[i])]

\* str.rfind: the last position of character c in s, 0 when there is none.
RFind(s, c) ==
    LET hits == {i \in 1..Len(s) : s[i] = c}
    IN IF hits = {} THEN 0 ELSE CHOOSE i \in hits : \A j \in hits : j <= i

\* os.path.splitext(p)[1]: the text from the last dot of the last path
\* component, empty when that component has no dot or only leading dots.
SplitExt(p) ==
    LET sepIndex == RFind(p, "/")
        dotIndex == RFind(p, ".")
    IN IF dotIndex > sepIndex
          /\ \E k \in (sepIndex + 1)..(dotIndex - 1) : p[k] # "."
       THEN SubSeq(p, dotIndex, Len(p))
       ELSE <<>>

\* ------------------------------------------------------------- float(age)
Digits == {"0", "1", "2", "3", "4", "5", "6", "7", "8", "9"}

DigitVal(c) ==
    CASE c = "0" -> 0 [] c = "1" -> 1 [] c = "2" -> 2 [] c = "3" -> 3
      [] c = "4" -> 4 [] c = "5" -> 5 [] c = "6" -> 6 [] c = "7" -> 7
      [] c = "8" -> 8 [] c = "9" -> 9

RECURSIVE DecVal(_)
DecVal(s) == IF s = <<>> THEN 0
             ELSE 10 * DecVal(SubSeq(s, 1, Len(s) - 1)) + DigitVal(s[Len(s)])

AllDigits(s) == \A i \in 1..Len(s) : s[i] \in Digits

RECURSIVE Strip(_)
Strip(s) ==
    IF s # <<>> /\ s[1] = " " THEN Strip(Tail(s))
    ELSE IF s # <<>> /\ s[Len(s)] = " " THEN Strip(SubSeq(s, 1, Len(s) - 1))
    ELSE s

\* float(text) for decimal literals with at most one fractional digit, and
\* for "nan".  ok = FALSE is ValueError; val is in tenths.
ParseUnsigned(s) ==
    LET dot == RFind(s, ".")
        ip == IF dot = 0 THEN s ELSE SubSeq(s, 1, dot - 1)
        fp == IF dot = 0 THEN <<>> ELSE SubSeq(s, dot + 1, Len(s))
    IN IF AllDigits(ip) /\ AllDigits(fp) /\ Len(fp) <= 1 /\ Len(ip) + Len(fp) >= 1
       THEN [ok |-> TRUE, nan |-> FALSE, val |-> 10 * DecVal(ip) + DecVal(fp)]
       ELSE [ok |-> FALSE, nan |-> FALSE, val |-> 0]

ParseFloat(text) ==
    LET s == Strip(text)
    IN IF Lower(s) = <<"n", "a", "n">> THEN [ok |-> TRUE, nan |-> TRUE, val |-> 0]
       ELSE IF s # <<>> /\ s[1] = "-"
       THEN LET u == ParseUnsigned(Tail(s))
            IN [ok |-> u.ok, nan |-> FALSE, val |-> 0 - u.val]
       ELSE IF s # <<>> /\ s[1] = "+" THEN ParseUnsigned(Tail(s))
       ELSE ParseUnsigned(s)

\* ------------------------------------------------------------- state
\* The three artifacts loaded at import time, the operation in progress with
\* its inputs (call), and what it produced (result).
VARIABLES drawing_model, voice_model, voice_scaler, call, result

vars == <<drawing_model, voice_model, voice_scaler, call, result>>

\* ------------------------------------------------------------- drawing adapter
\* in_shape[1..3] and int(): anything but three integers (a short shape, a
\* None dimension) raises inside the try and yields the default.
InputHWC(in_shape) ==
    IF Len(in_shape) >= 4 /\ \A k \in 2..4 : in_shape[k] # None
    THEN <<in_shape[2], in_shape[3], in_shape[4]>>
    ELSE <<224, 224, 3>>

\* cv2.imread: the number of dimensions of the array read; 0 stands for the
\* None returned for a file that cannot be decoded.
imread(image, flag) ==
    IF ~image.readable THEN 0
    ELSE IF flag = "IMREAD_COLOR" THEN 3 ELSE 2

\* The adapter without its "img is None" test: the resize is reached with
\* no image and OpenCV raises.
get_drawing_input_unchecked(image) ==
    LET hwc == InputHWC(drawing_model.input_shape)
        C == hwc[3]
        ndim0 == imread(image, IF C = 3 THEN "IMREAD_COLOR" ELSE "IMREAD_GRAYSCALE")
    IN IF ndim0 = 0
       THEN [raised |-> "cv2.error", calls |-> <<"imread", "resize">>, shape |-> <<>>]
       ELSE [raised |-> "",
             calls |-> <<"imread", "resize", "astype", "img_to_array", "expand_dims">>,
             shape |-> <<1, hwc[1], hwc[2], IF ndim0 = 3 THEN 3 ELSE 1>>]

get_drawing_input(image) ==
    LET hwc == InputHWC(drawing_model.input_shape)
        H == hwc[1]
        W == hwc[2]
        C == hwc[3]
        ndim0 == imread(image, IF C = 3 THEN "IMREAD_COLOR" ELSE "IMREAD_GRAYSCALE")
        toGray == C = 1 /\ ndim0 = 3
        ndim1 == IF toGray THEN 2 ELSE ndim0
        toBGR == C = 3 /\ ndim1 = 2
        ndim2 == IF toBGR THEN 3 ELSE ndim1
        cvt == (IF toGray THEN <<"cvtColor">> ELSE <<>>)
                   \o (IF toBGR THEN <<"cvtColor">> ELSE <<>>)
        \* img_to_array gives a 2-d image a channel axis of 1
        Cout == IF ndim2 = 3 THEN 3 ELSE 1
    IN IF ndim0 = 0
       THEN [raised |-> "FileNotFoundError", calls |-> <<"imread">>, shape |-> <<>>]
       ELSE [raised |-> "",
             calls |-> <<"imread">> \o cvt
                          \o <<"resize", "astype", "img_to_array", "expand_dims">>,
             shape |-> <<1, H, W, Cout>>]

\* ------------------------------------------------------------- voice extractor
Zeros(n) == [i \in 1..n |-> 0]

AllZero(row) == \A i \in 1..Len(row) : row[i] = 0

\* Python truthiness of expected_n_features in "expected_n_features or ...".
Truthy(n) == n # None /\ n # 0

\* [f0, hnr, 0.0]: a failed or all-unvoiced f0 and a failed hnr are 0.0.
BaseFeats(wav) ==
    << IF wav.f0_kind = "val" THEN wav.f0 ELSE 0,
       IF wav.hnr_kind = "val" THEN wav.hnr ELSE 0,
       0 >>

\* The width the row is cut or padded to.
FeatureCount(expected_n_features) ==
    IF voice_scaler.has_names THEN voice_scaler.width
    ELSE IF Truthy(expected_n_features) THEN expected_n_features
    ELSE IF voice_scaler.has_n THEN voice_scaler.width
    ELSE 3

\* The pad branch writing the base features at the right end of the row.
PadOrTruncate_rightaligned(base_feats, n) ==
    IF n <= Len(base_feats) THEN SubSeq(base_feats, 1, n)
    ELSE Zeros(n - Len(base_feats)) \o base_feats

PadOrTruncate(base_feats, n) ==
    IF n <= Len(base_feats) THEN SubSeq(base_feats, 1, n)
    ELSE [i \in 1..n |-> IF i <= Len(base_feats) THEN base_feats[i] ELSE 0]

\* parselmouth.Sound and to_pitch are called outside any try.
extract_voice_from_wav(wav, expected_n_features) ==
    IF ~wav.snd_ok
    THEN [raised |-> "PraatError", calls |-> <<"Sound">>, x |-> <<>>]
    ELSE IF ~wav.pitch_ok
    THEN [raised |-> "PraatError", calls |-> <<"Sound", "to_pitch">>, x |-> <<>>]
    ELSE [raised |-> "",
          calls |-> <<"Sound", "to_pitch", "selected_array", "to_harmonicity_ac">>,
          x |-> PadOrTruncate(BaseFeats(wav), FeatureCount(expected_n_features))]

\* ------------------------------------------------------------- the loaded models
\* voice_scaler.transform: a scaler that records n_features_in_ rejects a row
\* of any other width; one that does not leaves the width to the array
\* arithmetic, which broadcasts a trained width of 1 and raises on any other
\* mismatch.  A non-finite value is rejected.
transform(row) ==
    [raised |-> \/ /\ Len(row) # voice_scaler.width
                   /\ (voice_scaler.has_n \/ voice_scaler.width # 1)
                \/ \E i \in 1..Len(row) : row[i] = Inf,
     of |-> row]

\* getattr(voice_scaler, "n_features_in_", default)
n_features_in(default) == IF voice_scaler.has_n THEN voice_scaler.width ELSE default

\* The classifier on a scaled row: vm gives its probability of class 1 on the
\* scaled zero row and on any other row; predict gives the class label.
VoiceProb(v_scaled, vm) ==
    LET p == IF AllZero(v_scaled) THEN vm.zero ELSE vm.raw
    IN IF voice_model.has_predict_proba THEN p
       ELSE IF p >= 50 THEN 100 ELSE 0

Abs(x) == IF x < 0 THEN 0 - x ELSE x

\* ------------------------------------------------------------- command line
\* The caution block of multimodal_predict with the thresholds of predict.
CliCaution_http_thresholds(age) ==
    IF ~age.present THEN "None"
    ELSE LET a == ParseFloat(age.text)
         IN IF a.ok /\ ~a.nan /\ (a.val < 110 \/ a.val > 750)
            THEN "very young/old" ELSE "None"

\* age is None, or float(age) raises: no caution.  A nan compares false.
CliCaution(age) ==
    IF ~age.present THEN "None"
    ELSE LET a == ParseFloat(age.text)
         IN IF a.ok /\ ~a.nan /\ (a.val < 180 \/ a.val > 800)
            THEN "very young/old" ELSE "None"

CliBase ==
    [raised |-> "", calls |-> <<>>, d_prob |-> 0, v_prob |-> 0, final |-> 0,
     decision |-> "", confidence |-> 0, caution |-> "None",
     v_raw |-> <<>>, v_scaled |-> <<>>, printed |-> FALSE]

\* d_out is what drawing_model.predict returns for the tensor, vm what the
\* voice classifier returns (see VoiceProb).
multimodal_predict(img, wav, age, draw_weight, voice_weight, d_out, vm) ==
    LET d_in == get_drawing_input(img)
        d_prob == d_out
        expected == n_features_in(None)
        v == extract_voice_from_wav(wav, expected)
        v_raw == v.x
        t1 == transform(v_raw)
        n == n_features_in(Len(v_raw))
        t2 == transform(Zeros(n))
        v_scaled == IF t1.raised THEN t2.of ELSE t1.of
        v_prob == VoiceProb(v_scaled, vm)
        final == draw_weight * d_prob + voice_weight * v_prob
        c1 == <<"get_drawing_input">>
        c2 == c1 \o <<"drawing_model.predict", "extract_voice_from_wav">>
        c3 == c2 \o <<"transform">>
        c4 == IF t1.raised THEN c3 \o <<"transform_zeros">> ELSE c3
        c5 == c4 \o <<IF voice_model.has_predict_proba THEN "predict_proba" ELSE "predict">>
    IN IF d_in.raised # ""
       THEN [CliBase EXCEPT !.raised = d_in.raised, !.calls = c1]
       ELSE IF v.raised # ""
       THEN [CliBase EXCEPT !.raised = v.raised, !.calls = c2, !.d_prob = d_prob]
       ELSE IF t1.raised /\ t2.raised
       THEN [CliBase EXCEPT !.raised = "ValueError", !.calls = c4,
                            !.d_prob = d_prob, !.v_raw = v_raw]
       ELSE [raised |-> "", calls |-> c5, d_prob |-> d_prob, v_prob |-> v_prob,
             final |-> final,
             decision |-> IF final >= 5000 THEN "Parkinson" ELSE "No Parkinson",
             confidence |-> Abs(final - 5000) * 2,
             caution |-> CliCaution(age),
             v_raw |-> v_raw, v_scaled |-> v_scaled, printed |-> TRUE]

\* ------------------------------------------------------------- POST /predict
\* "not spiral_file": no such field, or an upload whose file name is empty.
Falsy(file) == ~file.present \/ file.filename = <<>>

HttpCaution(age) ==
    IF ~age.present THEN "None"
    ELSE LET a == ParseFloat(age.text)
         IN IF a.ok /\ ~a.nan /\ (a.val < 110 \/ a.val > 750)
            THEN "kids under 11 or elders over 75" ELSE "None"

HttpBase ==
    [kind |-> "response", status |-> 0, error |-> <<>>, exception |-> "",
     prediction |-> "", combined_score |-> 0, confidence |-> 0,
     drawing_prob |-> 0, voice_prob |-> 0, caution |-> "None",
     extracted_voice_features |-> <<>>, v_raw |-> <<>>, v_scaled |-> <<>>,
     created |-> {}, remove_attempted |-> {}, remaining |-> {},
     calls |-> <<>>, voice_path |-> ""]

\* The temporary files left on disk: os.remove either works for the request
\* or fails and is ignored.
Remaining(created, attempted, remove_ok) ==
    IF remove_ok THEN created \ attempted ELSE created

\* The decision of predict with a strict comparison.
HttpPrediction_strict(final) == IF final > 5000 THEN "Parkinson" ELSE "No Parkinson"

HttpPrediction(final) == IF final >= 5000 THEN "Parkinson" ELSE "No Parkinson"

\* The files the except block of the conversion removes.
TranscodeFailureCleanup == {"spiral_path", "raw_voice_path"}

\* The extension test on the extension as uploaded, without lower().
IsWebm_casesensitive(original_name) == SplitExt(original_name) = Str_webm

IsWebm(original_name) == Lower(SplitExt(original_name)) = Str_webm

\* The missing-field tests with the voice field tested before the image.
MissingField_voicefirst(spiral_file, voice_file) ==
    IF Falsy(voice_file) THEN "voice_wav"
    ELSE IF Falsy(spiral_file) THEN "spiral_img"
    ELSE ""

\* Which required field the handler reports as missing ("" for none).
MissingField(spiral_file, voice_file) ==
    IF Falsy(spiral_file) THEN "spiral_img"
    ELSE IF Falsy(voice_file) THEN "voice_wav"
    ELSE ""

predict(req) ==
    LET age == req.age
        spiral_file == req.spiral_img
        voice_file == req.voice_wav
        missing == MissingField(spiral_file, voice_file)
        original_name == IF voice_file.filename = <<>> THEN Str_voice_input
                         ELSE voice_file.filename
        is_webm == IsWebm(original_name)
        final_voice_path == IF is_webm THEN "wav_path" ELSE "raw_voice_path"
        created == {"spiral_path", "raw_voice_path"}
                       \cup (IF is_webm THEN {"wav_path"} ELSE {})
        conv == IF is_webm THEN <<"AudioSegment.from_file">> ELSE <<>>
        d_in == get_drawing_input(spiral_file.image)
        d_prob == req.d_out
        expected == n_features_in(None)
        v == extract_voice_from_wav(voice_file.audio, expected)
        v_raw == v.x
        t1 == transform(v_raw)
        n == n_features_in(Len(v_raw))
        t2 == transform(Zeros(n))
        v_scaled == IF t1.raised THEN t2.of ELSE t1.of
        v_prob == VoiceProb(v_scaled, req.vm)
        final == 55 * d_prob + 45 * v_prob
        c0 == IF is_webm THEN conv \o <<"export">> ELSE <<>>
        c1 == c0 \o <<"get_drawing_input">>
        c2 == c1 \o <<"drawing_model.predict", "extract_voice_from_wav">>
        c3 == c2 \o <<"transform">>
        c4 == IF t1.raised THEN c3 \o <<"transform_zeros">> ELSE c3
        c5 == c4 \o <<IF voice_model.has_predict_proba THEN "predict_proba" ELSE "predict">>
        cleanup == {"spiral_path", "raw_voice_path"}
                       \cup (IF final_voice_path # "raw_voice_path"
                             THEN {final_voice_path} ELSE {})
        Raised(e, calls, raw) ==
            [HttpBase EXCEPT !.kind = "raised", !.exception = e, !.calls = calls,
                             !.v_raw = raw,
                             !.created = created, !.remaining = created,
                             !.voice_path = final_voice_path]
    IN IF missing = "spiral_img"
       THEN [HttpBase EXCEPT !.status = 400, !.error = <<"spiral_img is required">>]
       ELSE IF missing = "voice_wav"
       THEN [HttpBase EXCEPT !.status = 400, !.error = <<"voice_wav is required">>,
                             !.created = {"spiral_path"},
                             !.remove_attempted = {"spiral_path"},
                             !.remaining = Remaining({"spiral_path"}, {"spiral_path"},
                                                     req.remove_ok)]
       ELSE IF is_webm /\ voice_file.webm_error # ""
       THEN [HttpBase EXCEPT !.status = 500,
                             !.error = <<"Failed to convert webm to wav: ",
                                         voice_file.webm_error>>,
                             !.created = created,
                             !.remove_attempted = TranscodeFailureCleanup,
                             !.remaining = Remaining(created, TranscodeFailureCleanup,
                                                     req.remove_ok),
                             !.calls = conv]
       ELSE IF d_in.raised # "" THEN Raised(d_in.raised, c1, <<>>)
       ELSE IF v.raised # "" THEN Raised(v.raised, c2, <<>>)
       ELSE IF t1.raised /\ t2.raised THEN Raised("ValueError", c4, v_raw)
       ELSE [kind |-> "response", status |-> 200, error |-> <<>>, exception |-> "",
             prediction |-> HttpPrediction(final),
             combined_score |-> final,
             confidence |-> Abs(final - 5000) * 2,
             drawing_prob |-> d_prob, voice_prob |-> v_prob,
             caution |-> HttpCaution(age),
             extracted_voice_features |-> v_raw, v_raw |-> v_raw,
             v_scaled |-> v_scaled,
             created |-> created, remove_attempted |-> cleanup,
             remaining |-> Remaining(created, cleanup, req.remove_ok),
             calls |-> c5, voice_path |-> final_voice_path]

\* ------------------------------------------------------------- inputs explored
\* Fitted scalers: every scaler has a trained width; it may declare it as
\* n_features_in_, and one fitted on named columns also has feature_names_in_
\* of that length.
Scalers ==
    {sc \in [width : 1..MaxWidth, has_n : BOOLEAN, has_names : BOOLEAN] :
        sc.has_names => sc.has_n}

\* Declared input shapes: colour, grey, unknown dimensions, a short shape.
InputShapes ==
    { <<None, 224, 224, 3>>, <<None, 128, 128, 1>>,
      <<None, None, None, 3>>, <<None, 64>> }

Images == {[readable |-> TRUE], [readable |-> FALSE]}

GoodAudio == [snd_ok |-> TRUE, pitch_ok |-> TRUE,
              f0_kind |-> "val", f0 |-> 120, hnr_kind |-> "val", hnr |-> 15]

\* A file parselmouth cannot open, a sound whose pitch analysis raises, and
\* sounds whose f0 and hnr steps raise, are empty (nan) or give a value.
Audios ==
    { [GoodAudio EXCEPT !.snd_ok = FALSE], [GoodAudio EXCEPT !.pitch_ok = FALSE] }
    \cup { [GoodAudio EXCEPT !.f0_kind = fk, !.hnr_kind = hk[1], !.hnr = hk[2]] :
             fk \in {"raise", "nan", "val"},
             hk \in {<<"raise", 15>>, <<"val", 15>>, <<"val", Inf>>} }

NoAge == [present |-> FALSE, text |-> <<>>]

AgeTexts ==
    { <<"1", "5">>, <<"1", "8">>, <<"8", "0">>, <<"8", "1">>,
      <<"1", "7", ".", "9">>, <<"8", "0", ".", "1">>,
      <<"1", "1">>, <<"7", "5">>, <<"1", "0", ".", "9">>, <<"7", "5", ".", "1">>,
      <<"4", "0">>, <<"-", "3">>, <<" ", "1", "5", " ">>,
      <<"a", "b", "c">>, <<>>, <<"n", "a", "n">>, <<"1", "5", "y">> }

Ages == {NoAge} \cup {[present |-> TRUE, text |-> t] : t \in AgeTexts}

Probs == {0, 20, 50, 80, 100}

VoiceOutputs ==
    { [raw |-> 20, zero |-> 50], [raw |-> 50, zero |-> 100],
      [raw |-> 100, zero |-> 0], [raw |-> 0, zero |-> 80] }

WeightPairs == { <<55, 45>>, <<50, 50>>, <<100, 0>>, <<100, 100>>, <<-50, 50>> }

FileNames ==
    { <<"a", ".", "w", "a", "v">>,
      <<"a", ".", "w", "e", "b", "m">>,
      <<"a", ".", "W", "E", "B", "M">>,
      <<"a", ".", "W", "e", "b", "M">>,
      <<".", "w", "e", "b", "m">>,
      <<"a", ".", "w", "e", "b", "m", ".", "w", "a", "v">>,
      <<"a", ".", "w", "a", "v", ".", "w", "e", "b", "m">>,
      <<"a", ".", "b", "/", "w", "e", "b", "m">>,
      <<"v", "o", "i", "c", "e">> }

GoodSpiral == [present |-> TRUE, filename |-> <<"s", ".", "p", "n", "g">>,
               image |-> [readable |-> TRUE]]

SpiralUploads ==
    { GoodSpiral,
      [GoodSpiral EXCEPT !.image = [readable |-> FALSE]],
      [GoodSpiral EXCEPT !.filename = <<>>],
      [GoodSpiral EXCEPT !.present = FALSE, !.filename = <<>>] }

GoodVoice == [present |-> TRUE, filename |-> <<"a", ".", "w", "a", "v">>,
              audio |-> GoodAudio, webm_error |-> ""]

WebmErrors == {"", "CouldntDecodeError"}

VoiceUploads ==
    { [GoodVoice EXCEPT !.filename = f, !.webm_error = e] :
        f \in FileNames \cup {<<>>}, e \in WebmErrors }
    \cup { [GoodVoice EXCEPT !.present = FALSE, !.filename = <<>>] }

GoodRequest == [spiral_img |-> GoodSpiral, voice_wav |-> GoodVoice, age |-> NoAge,
                d_out |-> 80, vm |-> [raw |-> 20, zero |-> 50], remove_ok |-> TRUE]

\* The requests explored: the uploads against each other, the audio against
\* the classifier's answers under both kinds of file name, the two
\* probabilities against each other and against the age.
Requests ==
    { [GoodRequest EXCEPT !.spiral_img = sp, !.voice_wav = vo, !.remove_ok = ok] :
        sp \in SpiralUploads, vo \in VoiceUploads, ok \in BOOLEAN }
    \cup { [GoodRequest EXCEPT !.voice_wav = [GoodVoice EXCEPT !.audio = w, !.filename = f],
                               !.vm = m] :
             w \in Audios, m \in VoiceOutputs,
             f \in { <<"a", ".", "w", "a", "v">>, <<"a", ".", "W", "e", "b", "M">> } }
    \cup { [GoodRequest EXCEPT !.d_out = d, !.vm = m] : d \in Probs, m \in VoiceOutputs }
    \cup { [GoodRequest EXCEPT !.age = a, !.d_out = d, !.vm = m] :
             a \in Ages, d \in Probs, m \in VoiceOutputs }

GoodRun == [op |-> "cli", img |-> [readable |-> TRUE], wav |-> GoodAudio, age |-> NoAge,
            draw_weight |-> 55, voice_weight |-> 45,
            d_out |-> 80, vm |-> [raw |-> 20, zero |-> 50]]

\* The command lines explored, on the same plan.
Runs ==
    { [GoodRun EXCEPT !.img = i, !.wav = w, !.vm = m] :
        i \in Images, w \in Audios, m \in VoiceOutputs }
    \cup { [GoodRun EXCEPT !.draw_weight = wp[1], !.voice_weight = wp[2],
                           !.d_out = d, !.vm = m] :
             wp \in WeightPairs, d \in Probs, m \in VoiceOutputs }
    \cup { [GoodRun EXCEPT !.age = a, !.draw_weight = wp[1], !.voice_weight = wp[2],
                           !.d_out = d] :
             a \in Ages, wp \in WeightPairs, d \in {20, 80} }

ExpectedCounts == {None} \cup 0..MaxExpected

\* ------------------------------------------------------------- state machine
\* After import: the three artifacts are loaded and nothing is in progress.
Init == /\ drawing_model \in {[input_shape |-> sh] : sh \in InputShapes}
        /\ voice_model \in {[has_predict_proba |-> b] : b \in BOOLEAN}
        /\ voice_scaler \in Scalers
        /\ call = [op |-> "idle"]
        /\ result = [op |-> "idle"]

\* python multimodal_infer.py --img .. --wav .. [--age ..] [--draw-weight ..]
Cli ==
    /\ call.op = "idle"
    /\ \E r \in Runs :
          /\ call' = r
          /\ result' = multimodal_predict(r.img, r.wav, r.age, r.draw_weight,
                                          r.voice_weight, r.d_out, r.vm)
    /\ UNCHANGED <<drawing_model, voice_model, voice_scaler>>

\* POST /predict
Post ==
    /\ call.op = "idle"
    /\ \E req \in Requests :
          /\ call' = [op |-> "http", req |-> req]
          /\ result' = predict(req)
    /\ UNCHANGED <<drawing_model, voice_model, voice_scaler>>

\* A caller of the imported helper extract_voice_from_wav.
CallExtract ==
    /\ call.op = "idle"
    /\ \E w \in Audios, e \in ExpectedCounts :
          /\ call' = [op |-> "extract", wav |-> w, expected_n_features |-> e]
          /\ result' = extract_voice_from_wav(w, e)
    /\ UNCHANGED <<drawing_model, voice_model, voice_scaler>>

\* A caller of the imported helper get_drawing_input.
CallDrawing ==
    /\ call.op = "idle"
    /\ \E i \in Images :
          /\ call' = [op |-> "drawing", img |-> i]
          /\ result' = get_drawing_input(i)
    /\ UNCHANGED <<drawing_model, voice_model, voice_scaler>>

\* The operation has returned or raised; its values are discarded.
Return ==
    /\ call.op # "idle"
    /\ call' = [op |-> "idle"]
    /\ result' = [op |-> "idle"]
    /\ UNCHANGED <<drawing_model, voice_model, voice_scaler>>

Next == Cli \/ Post \/ CallExtract \/ CallDrawing \/ Return

Spec == Init /\ [][Next]_vars

\* ------------------------------------------------------------- properties
CliDone == call.op = "cli" /\ result.raised = ""
HttpOk == call.op = "http" /\ result.kind = "response" /\ result.status = 200
ExtractDone == call.op = "extract" /\ result.raised = ""

\* C1: on both shells, for every weight pair the shell accepts and all
\* probabilities in [0,1], the combined score is w1*p1 + w2*p2, the decision
\* is "Parkinson" exactly when the score is at least 0.5, and the confidence
\* is |score - 0.5| * 2 and lies in [0,1].
C1_ScoreLaw ==
    /\ CliDone =>
          /\ result.final = call.draw_weight * result.d_prob
                              + call.voice_weight * result.v_prob
          /\ (result.decision = "Parkinson") <=> (result.final >= 5000)
          /\ result.decision \in {"Parkinson", "No Parkinson"}
          /\ result.confidence = 2 * (IF result.final >= 5000 THEN result.final - 5000
                                      ELSE 5000 - result.final)
          /\ result.confidence \in 0..10000
    /\ HttpOk =>
          /\ result.combined_score = 55 * result.drawing_prob + 45 * result.voice_prob
          /\ (result.prediction = "Parkinson") <=> (result.combined_score >= 5000)
          /\ result.prediction \in {"Parkinson", "No Parkinson"}
          /\ result.confidence = 2 * (IF result.combined_score >= 5000
                                      THEN result.combined_score - 5000
                                      ELSE 5000 - result.combined_score)
          /\ result.confidence \in 0..10000

\* The first min(3, N) entries are [f0, hnr, 0.0] of the sound, in that order
\* (0.0 for a step that raised or an all-unvoiced f0), and the rest are zero.
BaseThenZeros(x, wav) ==
    \A i \in 1..Len(x) :
        x[i] = (IF i = 1 /\ wav.f0_kind = "val" THEN wav.f0
                ELSE IF i = 2 /\ wav.hnr_kind = "val" THEN wav.hnr
                ELSE 0)

\* C2 as stated: for a scaler that declares its width, whatever
\* expected_n_features is passed, the row returned by extract_voice_from_wav
\* has exactly that many elements, base features first, zeros after.
C2_WidthIsScalerWidth ==
    (ExtractDone /\ voice_scaler.has_n) =>
        /\ Len(result.x) = voice_scaler.width
        /\ BaseThenZeros(result.x, call.wav)

\* C2 amended: the row has exactly N elements, base features first and zeros
\* after, where N is the length of feature_names_in_ if the scaler has it,
\* else expected_n_features if that is a positive integer, else the scaler's
\* n_features_in_ if it has it, else 3.  With expected_n_features None, 0 or
\* the scaler's n_features_in_ (what both shells pass), N is the scaler's
\* declared width.
C2_PadTruncateLaw ==
    /\ ExtractDone =>
          LET N == Len(result.x)
              e == call.expected_n_features
          IN /\ voice_scaler.has_names => N = voice_scaler.width
             /\ (~voice_scaler.has_names /\ e >= 1) => N = e
             /\ (~voice_scaler.has_names /\ e \in {None, 0} /\ voice_scaler.has_n)
                   => N = voice_scaler.width
             /\ (~voice_scaler.has_names /\ e \in {None, 0} /\ ~voice_scaler.has_n)
                   => N = 3
             /\ BaseThenZeros(result.x, call.wav)
    /\ (CliDone /\ voice_scaler.has_n) =>
          /\ Len(result.v_raw) = voice_scaler.width
          /\ BaseThenZeros(result.v_raw, call.wav)
    /\ (HttpOk /\ voice_scaler.has_n) =>
          /\ Len(result.extracted_voice_features) = voice_scaler.width
          /\ BaseThenZeros(result.extracted_voice_features, call.req.voice_wav.audio)

\* A direct call that pads to an explicit expected_n_features which is not
\* the width the scaler declares.
C2_Witness ==
    /\ ExtractDone
    /\ voice_scaler.has_n /\ ~voice_scaler.has_names
    /\ call.expected_n_features = 4 /\ voice_scaler.width = 2
    /\ call.wav.f0_kind = "val" /\ call.wav.hnr_kind = "val"
    /\ result.x = <<call.wav.f0, call.wav.hnr, 0, 0>>

\* C3: however POST /predict answers (200, 400, 500), a deletion was
\* attempted for every temporary file the handler created for the request,
\* so that none remains when the deletions succeed.
C3_EveryTempFileRemovalAttempted ==
    (call.op = "http" /\ result.kind = "response") =>
        /\ result.created \subseteq result.remove_attempted
        /\ call.req.remove_ok => result.remaining = {}

\* C4: without a spiral_img field the answer is 400 "spiral_img is required"
\* (also when voice_wav is missing too); with a spiral file and without a
\* voice_wav field it is 400 "voice_wav is required"; in both cases nothing
\* of the inference pipeline has been called.
C4_MissingInput ==
    call.op = "http" =>
        /\ ~call.req.spiral_img.present =>
              /\ result.kind = "response" /\ result.status = 400
              /\ result.error = <<"spiral_img is required">>
              /\ result.calls = <<>>
        /\ (call.req.spiral_img.present /\ call.req.spiral_img.filename # <<>>
               /\ ~call.req.voice_wav.present) =>
              /\ result.kind = "response" /\ result.status = 400
              /\ result.error = <<"voice_wav is required">>
              /\ result.calls = <<>>

\* Both fields are missing and the image is the one reported.
C4_Witness ==
    /\ call.op = "http"
    /\ ~call.req.spiral_img.present /\ ~call.req.voice_wav.present
    /\ result.status = 400 /\ result.error = <<"spiral_img is required">>

\* File names whose extension is .webm in some letter case, and the others.
WebmNames ==
    { <<"a", ".", "w", "e", "b", "m">>, <<"a", ".", "W", "E", "B", "M">>,
      <<"a", ".", "W", "e", "b", "M">>,
      <<"a", ".", "w", "a", "v", ".", "w", "e", "b", "m">> }

InferenceCalls ==
    {"get_drawing_input", "drawing_model.predict", "extract_voice_from_wav",
     "transform", "transform_zeros", "predict_proba", "predict"}

Called(name) == \E i \in 1..Len(result.calls) : result.calls[i] = name

BothUploaded ==
    /\ call.op = "http"
    /\ call.req.spiral_img.present /\ call.req.spiral_img.filename # <<>>
    /\ call.req.voice_wav.present /\ call.req.voice_wav.filename # <<>>

\* C5: a voice upload whose extension is .webm in any letter case and whose
\* conversion raises is answered 500 with the failure reason in the error
\* body, nothing escapes and no inference is invoked; with any other
\* extension no conversion is attempted and the raw upload is the file
\* handed to feature extraction.
C5_TranscodeFailure ==
    BothUploaded =>
        /\ (call.req.voice_wav.filename \in WebmNames
               /\ call.req.voice_wav.webm_error # "") =>
              /\ result.kind = "response" /\ result.status = 500
              /\ Len(result.error) = 2
              /\ result.error[2] = call.req.voice_wav.webm_error
              /\ \A c \in InferenceCalls : ~Called(c)
        /\ call.req.voice_wav.filename \notin WebmNames =>
              /\ ~Called("AudioSegment.from_file") /\ ~Called("export")
              /\ result.status # 500
              /\ Called("extract_voice_from_wav") => result.voice_path = "raw_voice_path"

\* An upper-case .WEBM upload that fails to decode is answered 500.
C5_Witness ==
    /\ BothUploaded
    /\ call.req.voice_wav.filename = <<"a", ".", "W", "E", "B", "M">>
    /\ call.req.voice_wav.webm_error = "CouldntDecodeError"
    /\ result.status = 500
    /\ result.error = <<"Failed to convert webm to wav: ", "CouldntDecodeError">>

\* Age texts by what float() makes of them.
Unparseable == { <<"a", "b", "c">>, <<>>, <<"1", "5", "y">> }
Below11 == { <<"1", "0", ".", "9">>, <<"-", "3">> }
From11Below18 ==
    { <<"1", "1">>, <<"1", "5">>, <<" ", "1", "5", " ">>, <<"1", "7", ".", "9">> }
From18To75 == { <<"1", "8">>, <<"4", "0">>, <<"7", "5">> }
Above75To80 == { <<"7", "5", ".", "1">>, <<"8", "0">> }
Above80 == { <<"8", "0", ".", "1">>, <<"8", "1">> }

\* C6: an absent or unparseable age gives no caution and raises nothing; a
\* parseable age gives a caution exactly when it is < 18 or > 80 on the
\* command line and < 11 or > 75 over HTTP (18, 80, 11 and 75 give none);
\* age 15 gives a caution on the command line and none over HTTP.
C6_AgeCaution ==
    /\ call.op = "cli" =>
          /\ result.raised = multimodal_predict(call.img, call.wav, NoAge,
                                 call.draw_weight, call.voice_weight,
                                 call.d_out, call.vm).raised
          /\ result.raised = "" =>
                /\ (~call.age.present \/ call.age.text \in Unparseable)
                      => result.caution = "None"
                /\ (call.age.present /\ call.age.text \in
                        Below11 \cup From11Below18 \cup Above80)
                      => result.caution # "None"
                /\ (call.age.present /\ call.age.text \in From18To75 \cup Above75To80)
                      => result.caution = "None"
    /\ call.op = "http" =>
          /\ result.kind = predict([call.req EXCEPT !.age = NoAge]).kind
          /\ result.status = predict([call.req EXCEPT !.age = NoAge]).status
          /\ result.status = 200 =>
                /\ (~call.req.age.present \/ call.req.age.text \in Unparseable)
                      => result.caution = "None"
                /\ (call.req.age.present /\ call.req.age.text \in
                        Below11 \cup Above75To80 \cup Above80)
                      => result.caution # "None"
                /\ (call.req.age.present /\ call.req.age.text \in
                        From11Below18 \cup From18To75)
                      => result.caution = "None"

\* Age 15 on the command line: a caution is printed.
C6_Witness ==
    /\ CliDone
    /\ call.age.present /\ call.age.text = <<"1", "5">>
    /\ result.caution = "very young/old"

\* C7: extract_voice_from_wav never raises: whichever internal step fails
\* (opening the sound, the pitch analysis, the mean f0, the harmonicity), a
\* feature row is still returned.
C7_ExtractorNeverRaises ==
    call.op = "extract" => (result.raised = "" /\ Len(result.x) >= 1)

\* C8: for an unreadable image path get_drawing_input raises
\* FileNotFoundError, and nothing but the read has been attempted (no colour
\* conversion, resize or normalisation), whatever the declared input shape;
\* the same exception is what leaves either shell.
C8_UnreadableImage ==
    /\ (call.op = "drawing" /\ ~call.img.readable) =>
          /\ result.raised = "FileNotFoundError"
          /\ result.calls = <<"imread">>
    /\ (call.op = "cli" /\ ~call.img.readable) =>
          /\ result.raised = "FileNotFoundError"
          /\ result.calls = <<"get_drawing_input">>
    /\ (BothUploaded /\ ~call.req.spiral_img.image.readable
           /\ ~(call.req.voice_wav.filename \in WebmNames
                   /\ call.req.voice_wav.webm_error # "")) =>
          /\ result.kind = "raised" /\ result.exception = "FileNotFoundError"

\* An unreadable image under a model whose shape introspection fails.
C8_Witness ==
    /\ call.op = "drawing" /\ ~call.img.readable
    /\ drawing_model.input_shape = <<None, None, None, 3>>
    /\ result.raised = "FileNotFoundError"

\* The run got as far as the first scaler transform, and the scaler raised
\* on the width of the extracted row.
ShapeMismatch(v_raw) ==
    /\ v_raw # <<>>
    /\ Len(v_raw) # voice_scaler.width
    /\ voice_scaler.has_n \/ voice_scaler.width # 1

\* C9: on both shells, whenever the first transform of the extracted row
\* raises on a shape mismatch, the transform is retried exactly once with a
\* zero row of the scaler's width, the run is not failed, the voice
\* probability is the classifier's answer for that zero row, and the HTTP
\* response still carries the raw row.
C9_MismatchRetried ==
    /\ (call.op = "cli" /\ ShapeMismatch(result.v_raw)) =>
          /\ result.raised = ""
          /\ result.v_scaled = Zeros(voice_scaler.width)
          /\ Len(SelectSeq(result.calls, LAMBDA c : c = "transform_zeros")) = 1
          /\ voice_model.has_predict_proba => result.v_prob = call.vm.zero
    /\ (call.op = "http" /\ ShapeMismatch(result.v_raw)) =>
          /\ result.kind = "response" /\ result.status = 200
          /\ result.v_scaled = Zeros(voice_scaler.width)
          /\ Len(SelectSeq(result.calls, LAMBDA c : c = "transform_zeros")) = 1
          /\ voice_model.has_predict_proba => result.voice_prob = call.req.vm.zero
          /\ result.extracted_voice_features = result.v_raw

\* C10: on the same image, the same wav audio, the same model outputs and the
\* weights 0.55/0.45, multimodal_predict and predict make the same calls in
\* the same order, fail alike, and give the same drawing probability, voice
\* probability, combined score, decision and confidence.
C10_ShellsAgree ==
    /\ (BothUploaded /\ call.req.voice_wav.filename \notin WebmNames) =>
          LET c == multimodal_predict(call.req.spiral_img.image,
                       call.req.voice_wav.audio, call.req.age, 55, 45,
                       call.req.d_out, call.req.vm)
          IN /\ result.calls = c.calls
             /\ result.exception = c.raised
             /\ (result.kind = "response") <=> (c.raised = "")
             /\ result.kind = "response" =>
                   /\ result.status = 200
                   /\ result.drawing_prob = c.d_prob
                   /\ result.voice_prob = c.v_prob
                   /\ result.combined_score = c.final
                   /\ result.prediction = c.decision
                   /\ result.confidence = c.confidence
                   /\ result.extracted_voice_features = c.v_raw
                   /\ result.v_scaled = c.v_scaled
    /\ (call.op = "cli" /\ call.draw_weight = 55 /\ call.voice_weight = 45) =>
          LET h == predict([GoodRequest EXCEPT
                               !.spiral_img = [GoodSpiral EXCEPT !.image = call.img],
                               !.voice_wav = [GoodVoice EXCEPT !.audio = call.wav],
                               !.age = call.age, !.d_out = call.d_out,
                               !.vm = call.vm])
          IN /\ h.calls = result.calls
             /\ h.exception = result.raised
             /\ result.raised = "" =>
                   /\ h.status = 200
                   /\ h.drawing_prob = result.d_prob
                   /\ h.voice_prob = result.v_prob
                   /\ h.combined_score = result.final
                   /\ h.prediction = result.decision
                   /\ h.confidence = result.confidence

\* The spec's scenario over HTTP: 0.8 and 0.2 give 0.53, "Parkinson", 0.06.
C10_Witness ==
    /\ HttpOk
    /\ call.req.voice_wav.filename \notin WebmNames
    /\ result.drawing_prob = 80 /\ result.voice_prob = 20
    /\ result.combined_score = 5300 /\ result.prediction = "Parkinson"
    /\ result.confidence = 600
====
